---- MODULE Spec2Model ----
(***************************************************************************)
(* Model of sales_analysis/analyze_sales.py: the column detector, the      *)
(* date filter / cleaner, the (month, category) aggregator, the pivot and  *)
(* percent-change reshaper, the exporter with its top-N chart, and the     *)
(* first-versus-last-month reporter.                                       *)
(*                                                                         *)
(* Conventions.                                                            *)
(*  - A column name is a sequence of one-character strings, so that        *)
(*    str.lower() is modelled character by character.  A CJK character of  *)
(*    the source is written as one token "zh_<pinyin>"; lower() leaves it  *)
(*    unchanged, as Python does.                                           *)
(*  - None (no column detected) is the empty name <<>>.                    *)
(*  - A cell is a record [k, v]; k is the kind of the value.               *)
(*  - A timestamp is an integer number of half days since                  *)
(*    2025-10-01 00:00, so that a time of day within a calendar day can be *)
(*    told from midnight.                                                  *)
(*  - A month label "YYYY-MM" is the integer YYYY*100+MM; the order of the *)
(*    integers is the lexicographic order of the labels.                   *)
(*  - A float that results from a division is a record [k, n, d]: the      *)
(*    rational n/d (k = "num"), NaN (k = "nan") or an infinity.            *)
(***************************************************************************)
EXTENDS Integers, Sequences, FiniteSets, TLC

VARIABLES pc, input, df, cols, args, top_n, agg, pivot, pct, chart, report,
          files, fin, fout

vars == <<pc, input, df, cols, args, top_n, agg, pivot, pct, chart, report,
          files, fin, fout>>

(***************************************************************************)
(* Generic helpers                                                         *)
(***************************************************************************)
Range(s) == {s[i] : i \in DOMAIN s}

Min(a, b) == IF a <= b THEN a ELSE b

Max(a, b) == IF a >= b THEN a ELSE b

\* All sequences over S of length at most n.
SeqsUpTo(S, n) == UNION {[1..m -> S] : m \in 0..n}

\* All sequences over S without repetition, of length at most n.
DistinctSeqsUpTo(S, n) ==
    {s \in SeqsUpTo(S, n) : \A i, j \in DOMAIN s : s[i] = s[j] => i = j}

\* The subsequence of s of the elements that satisfy Keep, in order.
RECURSIVE SelectIdx(_, _, _)
SelectIdx(s, keep, i) ==
    IF i > Len(s) THEN <<>>
    ELSE IF i \in keep THEN <<s[i]>> \o SelectIdx(s, keep, i + 1)
    ELSE SelectIdx(s, keep, i + 1)

(***************************************************************************)
(* Strings: str.lower()                                                    *)
(***************************************************************************)
UpperToLower ==
    [c \in {"A", "B", "C", "D", "E", "G", "I", "M", "N", "O", "Q", "R", "T",
            "U", "Y"} |->
       CASE c = "A" -> "a" [] c = "B" -> "b" [] c = "C" -> "c"
         [] c = "D" -> "d" [] c = "E" -> "e" [] c = "G" -> "g"
         [] c = "I" -> "i" [] c = "M" -> "m" [] c = "N" -> "n"
         [] c = "O" -> "o" [] c = "Q" -> "q" [] c = "R" -> "r"
         [] c = "T" -> "t" [] c = "U" -> "u" [] c = "Y" -> "y"]

LowerChar(c) == IF c \in DOMAIN UpperToLower THEN UpperToLower[c] ELSE c

\* str.lower(): every cased character is replaced by its lower-case form.
Lower(name) == [i \in DOMAIN name |-> LowerChar(name[i])]

None == <<>>

(***************************************************************************)
(* detect_column(df, candidates)                                           *)
(***************************************************************************)
\* The first candidate, in list order, that is a header; None if there is none.
RECURSIVE FirstExact(_, _, _)
FirstExact(columns, candidates, i) ==
    IF i > Len(candidates) THEN None
    ELSE IF candidates[i] \in Range(columns) THEN candidates[i]
    ELSE FirstExact(columns, candidates, i + 1)

\* lowermap = {col.lower(): col for col in df.columns}: a later header
\* overwrites an earlier one with the same lower-case form.
LowerMapKeys(columns) == {Lower(columns[i]) : i \in DOMAIN columns}

\* A lowermap that keeps the first header of each lower-case form.
LowerMapGetFirst(columns, key) ==
    LET hits == {i \in DOMAIN columns : Lower(columns[i]) = key}
        first == CHOOSE i \in hits : \A j \in hits : i <= j
    IN  columns[first]

LowerMapGet(columns, key) ==
    LET hits == {i \in DOMAIN columns : Lower(columns[i]) = key}
        last == CHOOSE i \in hits : \A j \in hits : j <= i
    IN  columns[last]

\* The second loop: the header stored under the lower-case form of the first
\* candidate whose lower-case form is a key of lowermap.
RECURSIVE FirstFuzzy(_, _, _)
FirstFuzzy(columns, candidates, i) ==
    IF i > Len(candidates) THEN None
    ELSE IF Lower(candidates[i]) \in LowerMapKeys(columns)
         THEN LowerMapGet(columns, Lower(candidates[i]))
    ELSE FirstFuzzy(columns, candidates, i + 1)

detect_column(columns, candidates) ==
    LET exact == FirstExact(columns, candidates, 1)
    IN  IF exact # None THEN exact ELSE FirstFuzzy(columns, candidates, 1)

(***************************************************************************)
(* The candidate lists (lines 18-21)                                       *)
(***************************************************************************)
COMMON_DATE_COLS ==
    << <<"zh_ri", "zh_qi">>,
       <<"zh_chu", "zh_ku", "zh_ri", "zh_qi">>,
       <<"zh_dan", "zh_ju", "zh_ri", "zh_qi">>,
       <<"zh_xiao", "zh_shou", "zh_ri", "zh_qi">>,
       <<"d", "a", "t", "e">>,
       <<"D", "a", "t", "e">>,
       <<"zh_chu", "zh_ku", "zh_shi", "zh_jian">> >>

COMMON_CATEGORY_COLS ==
    << <<"zh_chan", "zh_pin", "zh_lei", "zh_bie">>,
       <<"zh_lei", "zh_bie">>,
       <<"zh_lei", "zh_bie", "zh_ming", "zh_cheng">>,
       <<"zh_shang", "zh_pin", "zh_lei", "zh_bie">>,
       <<"zh_chan", "zh_pin", "zh_fen", "zh_lei">>,
       <<"zh_shang", "zh_pin", "zh_da", "zh_lei">>,
       <<"c", "a", "t", "e", "g", "o", "r", "y">>,
       <<"C", "a", "t", "e", "g", "o", "r", "y">>,
       <<"zh_lei", "zh_bie", "I", "D">> >>

COMMON_AMOUNT_COLS ==
    << <<"zh_jin", "zh_e">>,
       <<"zh_xiao", "zh_shou", "zh_e">>,
       <<"zh_shi2", "zh_shou2", "zh_jin", "zh_e">>,
       <<"zh_jin", "zh_e", "(", "zh_yuan", ")">>,
       <<"zh_zong", "zh_e">>,
       <<"zh_jin", "zh_e", "zh_he", "zh_ji">>,
       <<"a", "m", "o", "u", "n", "t">>,
       <<"A", "m", "o", "u", "n", "t">>,
       <<"zh_xiao", "zh_shou", "zh_jin", "zh_e">> >>

COMMON_QTY_COLS ==
    << <<"zh_shu", "zh_liang">>,
       <<"zh_shu", "zh_liang", "(", "zh_jian2", ")">>,
       <<"q", "t", "y">>,
       <<"Q", "t", "y">>,
       <<"zh_shu", "zh_liang", "(", "k", "g", ")">> >>

\* The columns main() adds: "month" (line 123) and the synthesized category
\* column (line 99).
MonthCol == <<"m", "o", "n", "t", "h">>

DetectedCatCol ==
    <<"zh_chan", "zh_pin", "zh_lei", "zh_bie", "_", "d", "e", "t", "e", "c",
      "t", "e", "d">>

\* The fill value of a missing category (lines 99, 102).
Unknown == "unknown"

(***************************************************************************)
(* Cells and their conversions                                             *)
(***************************************************************************)
Ts(t) == [k |-> "ts", v |-> t]

NaT == [k |-> "nat", v |-> 0]

BadDate == [k |-> "text", v |-> 0]

Num(n) == [k |-> "num", v |-> n]

NaN == [k |-> "nan", v |-> 0]

BadNum == [k |-> "text", v |-> 0]

Str(s) == [k |-> "str", v |-> s]

NoCat == [k |-> "nan", v |-> ""]

\* pd.to_datetime(x, errors="coerce") on one cell.
to_datetime(cell) == IF cell.k = "ts" THEN cell ELSE NaT

\* pd.to_numeric(x, errors="coerce") on one cell.
to_numeric(cell) == IF cell.k = "num" THEN cell ELSE NaN

\* Series.fillna(value) on one cell.
fillna(cell, value) == IF cell.k = "nan" THEN value ELSE cell

(***************************************************************************)
(* Rows: a row is a function from the column names to cells                *)
(***************************************************************************)
\* df[col] = values for a column that does not exist yet; values[i] is the
\* cell of row i.
AddCol(rows, col, values) ==
    [i \in DOMAIN rows |->
       [c \in DOMAIN rows[i] \cup {col} |->
          IF c = col THEN values[i] ELSE rows[i][c]]]

\* df.dropna(subset=[col])
dropna(rows, col) ==
    SelectIdx(rows, {i \in DOMAIN rows : rows[i][col].k \notin {"nat", "nan"}}, 1)

\* coerce_date(df, col)
coerce_date(rows, col) ==
    [i \in DOMAIN rows |-> [rows[i] EXCEPT ![col] = to_datetime(@)]]

\* A window that is open at its end.
date_mask_open_end(rows, col, start, end) ==
    {i \in DOMAIN rows : rows[i][col].v >= start /\ rows[i][col].v < end}

\* mask = (df[date_col] >= start) & (df[date_col] <= end); df.loc[mask]
date_mask(rows, col, start, end) ==
    {i \in DOMAIN rows : rows[i][col].v >= start /\ rows[i][col].v <= end}

filter_dates(rows, col, start, end) ==
    SelectIdx(rows, date_mask(rows, col, start, end), 1)

\* A table that keeps its duplicates.
keep_duplicates(rows) == rows

\* df.drop_duplicates(): a row equal in every column to an earlier row is
\* dropped, the first occurrence is kept.
drop_duplicates(rows) ==
    SelectIdx(rows, {i \in DOMAIN rows : \A j \in 1..(i - 1) : rows[j] # rows[i]}, 1)

(***************************************************************************)
(* The calendar: df[date_col].dt.to_period('M').astype(str)                *)
(***************************************************************************)
\* First day (counted from 2025-10-01) and label of the months 2025-09 to
\* 2026-02.
Calendar ==
    << [first |-> -30, last |-> -1,  label |-> 202509],
       [first |-> 0,   last |-> 30,  label |-> 202510],
       [first |-> 31,  last |-> 60,  label |-> 202511],
       [first |-> 61,  last |-> 91,  label |-> 202512],
       [first |-> 92,  last |-> 122, label |-> 202601],
       [first |-> 123, last |-> 150, label |-> 202602] >>

DayOf(ts) == IF ts >= 0 THEN ts \div 2 ELSE -((1 - ts) \div 2)

MonthLabel(ts) ==
    LET i == CHOOSE j \in DOMAIN Calendar :
                 Calendar[j].first <= DayOf(ts) /\ DayOf(ts) <= Calendar[j].last
    IN  Calendar[i].label

(***************************************************************************)
(* Ordering                                                                *)
(***************************************************************************)
\* The category labels of the model in the order of Python's string
\* comparison ("A" < "B" < "C" < the CJK fill value).
LabelOrder == <<"A", "B", "C", Unknown>>

LabelRank(s) == CHOOSE i \in DOMAIN LabelOrder : LabelOrder[i] = s

\* The elements of the set S as the ascending sequence of the key rank[x].
RECURSIVE SortedByRank(_, _)
SortedByRank(S, rank) ==
    IF S = {} THEN <<>>
    ELSE LET m == CHOOSE x \in S : \A y \in S : rank[x] <= rank[y]
         IN  <<m>> \o SortedByRank(S \ {m}, rank)

RECURSIVE SumOver(_, _)
SumOver(S, f) ==
    IF S = {} THEN 0
    ELSE LET x == CHOOSE y \in S : TRUE IN f[x] + SumOver(S \ {x}, f)

\* Series.sort_values(ascending=False) with the default kind="quicksort",
\* which is not stable: every arrangement of the labels in which the values
\* do not increase is a possible result.
RECURSIVE DescendingOrders(_, _)
DescendingOrders(S, val) ==
    IF S = {} THEN {<<>>}
    ELSE UNION { {<<c>> \o rest : rest \in DescendingOrders(S \ {c}, val)} :
                 c \in {x \in S : \A y \in S : val[y] <= val[x]} }

\* A head that does not cut.
head_all(s, n) == s

\* Series.head(n) / list slicing [:n]: a negative n leaves out the last -n.
head(s, n) ==
    IF n >= 0 THEN SubSeq(s, 1, Min(n, Len(s)))
    ELSE SubSeq(s, 1, Max(Len(s) + n, 0))

\* Series.tail(n) for n > 0.
tail(s, n) == SubSeq(s, Len(s) - Min(n, Len(s)) + 1, Len(s))

(***************************************************************************)
(* Aggregator (lines 123-137)                                              *)
(***************************************************************************)
\* df["month"] = df[date_col].dt.to_period('M').astype(str)
add_month(rows, date_col) ==
    AddCol(rows, MonthCol,
           [i \in DOMAIN rows |-> [k |-> "period", v |-> MonthLabel(rows[i][date_col].v)]])

\* The group keys of df.groupby(["month", cat_col]): a key with a missing
\* value forms no group.
GroupKeys(rows, cat_col) ==
    {<<rows[i][MonthCol].v, rows[i][cat_col].v>> :
        i \in {j \in DOMAIN rows : rows[j][cat_col].k # "nan"}}

GroupOf(rows, cat_col, key) ==
    {i \in DOMAIN rows : rows[i][cat_col].k # "nan"
                         /\ rows[i][MonthCol].v = key[1]
                         /\ rows[i][cat_col].v = key[2]}

\* 'sum' skips missing values; 'count' counts the values that are not missing.
ColSum(rows, idx, col) ==
    SumOver({i \in idx : rows[i][col].k = "num"}, [i \in idx |-> rows[i][col].v])

ColCount(rows, idx, col) == Cardinality({i \in idx : rows[i][col].k # "nan"})

NumLabels == Len(LabelOrder)

\* groupby sorts the keys: by month, then by category.
KeyRank(key) == key[1] * (NumLabels + 1) + LabelRank(key[2])

\* An aggregate whose qty is the number of rows whatever the columns.
aggregate_qty_count(rows, cat_col, amt_col, qty_col) ==
    LET gk == GroupKeys(rows, cat_col)
        keys == SortedByRank(gk, [key \in gk |-> KeyRank(key)])
    IN  [i \in DOMAIN keys |->
           LET g == GroupOf(rows, cat_col, keys[i])
           IN  [month |-> keys[i][1],
                cat |-> keys[i][2],
                sales_amount |-> ColSum(rows, g, amt_col),
                qty |-> ColCount(rows, g, amt_col),
                orders |-> ColCount(rows, g, amt_col)]]

aggregate(rows, cat_col, amt_col, qty_col) ==
    LET gk == GroupKeys(rows, cat_col)
        keys == SortedByRank(gk, [key \in gk |-> KeyRank(key)])
    IN  [i \in DOMAIN keys |->
           LET g == GroupOf(rows, cat_col, keys[i])
           IN  [month |-> keys[i][1],
                cat |-> keys[i][2],
                sales_amount |-> ColSum(rows, g, amt_col),
                qty |-> IF qty_col # None THEN ColSum(rows, g, qty_col)
                        ELSE ColCount(rows, g, amt_col),
                orders |-> ColCount(rows, g, amt_col)]]

(***************************************************************************)
(* Reshaper (lines 139-144)                                                *)
(***************************************************************************)
\* A pivot whose months run from the latest to the earliest.
make_pivot_descending(a) ==
    LET ms == {a[i].month : i \in DOMAIN a}
        cs == {a[i].cat : i \in DOMAIN a}
    IN  [index |-> SortedByRank(ms, [m \in ms |-> -m]),
         columns |-> SortedByRank(cs, [c \in cs |-> LabelRank(c)]),
         val |-> [mc \in ms \X cs |->
                    LET hit == {i \in DOMAIN a : a[i].month = mc[1] /\ a[i].cat = mc[2]}
                    IN  IF hit = {} THEN 0
                        ELSE a[CHOOSE i \in hit : TRUE].sales_amount]]

\* agg.pivot(index='month', columns=cat_col, values='sales_amount')
\*    .fillna(0).sort_index()
make_pivot(a) ==
    LET ms == {a[i].month : i \in DOMAIN a}
        cs == {a[i].cat : i \in DOMAIN a}
    IN  [index |-> SortedByRank(ms, [m \in ms |-> m]),
         columns |-> SortedByRank(cs, [c \in cs |-> LabelRank(c)]),
         val |-> [mc \in ms \X cs |->
                    LET hit == {i \in DOMAIN a : a[i].month = mc[1] /\ a[i].cat = mc[2]}
                    IN  IF hit = {} THEN 0
                        ELSE a[CHOOSE i \in hit : TRUE].sales_amount]]

FNaN == [k |-> "nan", n |-> 0, d |-> 1]

FInf == [k |-> "inf", n |-> 0, d |-> 1]

FNegInf == [k |-> "-inf", n |-> 0, d |-> 1]

Frac(n, d) == [k |-> "num", n |-> n, d |-> d]

\* Float division x / y - 1 as pct_change computes it (data / shifted - 1).
ratio_minus_one(x, y) ==
    IF y = 0 THEN (IF x > 0 THEN FInf ELSE IF x < 0 THEN FNegInf ELSE FNaN)
    ELSE Frac(x - y, y)

\* The change matrix without the replacement of the infinities.
keep_inf(f) == f

\* .replace([np.inf, -np.inf], np.nan)
replace_inf(f) == IF f.k \in {"inf", "-inf"} THEN FNaN ELSE f

\* pivot.pct_change().replace([np.inf, -np.inf], np.nan)
pct_change(p) ==
    [index |-> p.index,
     columns |-> p.columns,
     val |-> [mc \in DOMAIN p.val |->
                LET r == CHOOSE i \in DOMAIN p.index : p.index[i] = mc[1]
                IN  IF r = 1 THEN FNaN
                    ELSE replace_inf(ratio_minus_one(p.val[mc],
                                                     p.val[<<p.index[r - 1], mc[2]>>]))]]

(***************************************************************************)
(* Exporter: the top-N chart (lines 157-164)                               *)
(***************************************************************************)
\* agg.groupby(cat_col)['sales_amount'].sum()
total_by_cat(a) ==
    [c \in {a[i].cat : i \in DOMAIN a} |->
       SumOver({i \in DOMAIN a : a[i].cat = c}, [i \in DOMAIN a |-> a[i].sales_amount])]

\* The series plotted, in plotting order, for one possible result of the sort.
plotted(order, n, p) ==
    LET top_cats == head(order, n)
    IN  SelectIdx(top_cats, {i \in DOMAIN top_cats : top_cats[i] \in Range(p.columns)}, 1)

(***************************************************************************)
(* Reporter (lines 177-204)                                                *)
(***************************************************************************)
\* The number of entries of each list of the report (lines 189-190).
ReportTopK == 10

\* change = pivot[last] - pivot[first]
abs_change(p) ==
    LET first == p.index[1]
        last == p.index[Len(p.index)]
    IN  [c \in Range(p.columns) |-> p.val[<<last, c>>] - p.val[<<first, c>>]]

\* (pivot[last] - pivot[first]) / pivot[first].replace(0, np.nan)
rel_change(p) ==
    LET first == p.index[1]
        last == p.index[Len(p.index)]
    IN  [c \in Range(p.columns) |->
           IF p.val[<<first, c>>] = 0 THEN FNaN
           ELSE Frac(p.val[<<last, c>>] - p.val[<<first, c>>], p.val[<<first, c>>])]

report_entries(cats, p) ==
    [i \in DOMAIN cats |->
       [cat |-> cats[i], val |-> abs_change(p)[cats[i]], pctv |-> rel_change(p)[cats[i]]]]

\* A report whose second list is cut from the head of the ranking too.
make_report_head_twice(order, p) ==
    [months |-> p.index,
     gains |-> report_entries(head(order, ReportTopK), p),
     losses |-> report_entries(head(order, ReportTopK), p)]

\* The two lists of the report for one possible result of the sort of change.
make_report(order, p) ==
    [months |-> p.index,
     gains |-> report_entries(head(order, ReportTopK), p),
     losses |-> report_entries(tail(order, ReportTopK), p)]

(***************************************************************************)
(* Inputs of the pipeline                                                  *)
(***************************************************************************)
MaxRows == 2

MaxTopN == 2

\* --start and --end: 2025-10-01 (the default) or 2025-11-01; 2025-10-31 or
\* 2025-11-01.
DefaultStart == 0

Starts == {DefaultStart, 62}

Ends == {60, 62}

\* The tables read from the spreadsheet.  Each family is a header row and,
\* for every column, the cells a row may hold; the timestamps are
\* 2025-10-31 12:00 (61) and 2025-11-01 00:00 (62).
HDate == <<"d", "a", "t", "e">>

HDateUpper == <<"D", "A", "T", "E">>

HCat == <<"C", "a", "t", "e", "g", "o", "r", "y">>

HAmt == <<"a", "m", "o", "u", "n", "t">>

HQty == <<"Q", "t", "y">>

Families ==
    { [columns |-> <<HDateUpper, HCat, HAmt>>,
       cells |-> (HDateUpper :> {Ts(61), Ts(62)}
                  @@ HCat :> {Str("A"), Str("B"), NoCat}
                  @@ HAmt :> {Num(1), Num(2), BadNum})],
      [columns |-> <<HDate, HAmt, HQty>>,
       cells |-> (HDate :> {Ts(61), Ts(62)}
                  @@ HAmt :> {Num(1), BadNum}
                  @@ HQty :> {Num(3), BadNum})],
      [columns |-> <<HDate, HCat, HQty>>,
       cells |-> (HDate :> {BadDate, Ts(61), Ts(62)}
                  @@ HCat :> {Str("A"), NoCat}
                  @@ HQty :> {Num(3), BadNum})],
      [columns |-> <<HCat, HAmt, HQty>>,
       cells |-> (HCat :> {Str("A"), NoCat}
                  @@ HAmt :> {Num(1), BadNum}
                  @@ HQty :> {Num(3)})],
      [columns |-> <<HDate, HCat>>,
       cells |-> (HDate :> {BadDate, Ts(61), Ts(62)}
                  @@ HCat :> {Str("A"), Str("B")})] }

RowsOf(fam) ==
    {r \in [Range(fam.columns) -> UNION Range(fam.cells)] :
        \A c \in Range(fam.columns) : r[c] \in fam.cells[c]}

\* The tables of a family: its header row over at most MaxRows rows.
TablesOf(fam) ==
    {[columns |-> fam.columns, rows |-> rs] : rs \in SeqsUpTo(RowsOf(fam), MaxRows)}

OutputFiles ==
    {"aggregated_by_category_month.csv", "sales_pivot.csv", "sales_pct_change.csv",
     "sales_trends_top.png", "report.md"}

EmptyPivot == [index |-> <<>>, columns |-> <<>>, val |-> <<>>]

EmptyReport == [months |-> <<>>, gains |-> <<>>, losses |-> <<>>]

NoCols == [date |-> None, cat |-> None, amt |-> None, qty |-> None]

(***************************************************************************)
(* main(): the pipeline                                                    *)
(***************************************************************************)
Init ==
    /\ pc = "detect"
    /\ \E fam \in Families : input \in TablesOf(fam)
    /\ df = input
    /\ args \in [start : Starts, end : Ends]
    /\ top_n = 0
    /\ cols = NoCols
    /\ agg = <<>>
    /\ pivot = EmptyPivot
    /\ pct = EmptyPivot
    /\ chart = <<>>
    /\ report = EmptyReport
    /\ files = {}
    /\ fin = <<>>
    /\ fout = <<>>

\* Lines 70-80: the four detections and the missing-date checkpoint.
Detect ==
    /\ pc = "detect"
    /\ cols' = [date |-> detect_column(df.columns, COMMON_DATE_COLS),
                cat |-> detect_column(df.columns, COMMON_CATEGORY_COLS),
                amt |-> detect_column(df.columns, COMMON_AMOUNT_COLS),
                qty |-> detect_column(df.columns, COMMON_QTY_COLS)]
    /\ pc' = IF cols'.date = None THEN "exit_no_date" ELSE "filter"
    /\ UNCHANGED <<input, df, args, top_n, agg, pivot, pct, chart, report, files, fin, fout>>

\* Lines 82-90: parse the dates, drop the rows without one, keep the window.
date_filter(rows, date_col, start, end) ==
    filter_dates(dropna(coerce_date(rows, date_col), date_col), date_col, start, end)

FilterDates ==
    /\ pc = "filter"
    /\ df' = [df EXCEPT !.rows = date_filter(df.rows, cols.date, args.start, args.end)]
    /\ pc' = "clean"
    /\ UNCHANGED <<input, cols, args, top_n, agg, pivot, pct, chart, report, files, fin, fout>>

\* Lines 98-102: the category column after the fill or the synthesis.
clean_category(d, cat_col) ==
    IF cat_col = None
    THEN [columns |-> Append(d.columns, DetectedCatCol),
          rows |-> AddCol(d.rows, DetectedCatCol, [i \in DOMAIN d.rows |-> Str(Unknown)])]
    ELSE [d EXCEPT !.rows =
            [i \in DOMAIN d.rows |->
               [d.rows[i] EXCEPT ![cat_col] = fillna(@, Str(Unknown))]]]

\* Lines 113-115: the amount column made numeric, the rows without an amount
\* dropped.
clean_amount(rows, amt_col) ==
    dropna([i \in DOMAIN rows |-> [rows[i] EXCEPT ![amt_col] = to_numeric(@)]], amt_col)

\* Lines 119-120: the quantity column made numeric, a missing quantity is 0.
clean_qty(rows, qty_col) ==
    IF qty_col = None THEN rows
    ELSE [i \in DOMAIN rows |->
            [rows[i] EXCEPT ![qty_col] = fillna(to_numeric(@), Num(0))]]

\* An amount column without the fallback to the quantity column.
amount_column_no_fallback(amt_col, qty_col) == amt_col

\* Lines 105-109: the amount column, or the quantity column in its place when
\* no amount column was detected (None when there is neither).
amount_column(amt_col, qty_col) == IF amt_col = None THEN qty_col ELSE amt_col

\* Lines 98-100: the category column, or the synthesized one.
category_column(cat_col) == IF cat_col = None THEN DetectedCatCol ELSE cat_col

\* Lines 92-120: deduplication, category, amount (with the fallback to the
\* quantity column and the missing-amount checkpoint), quantity.
Clean ==
    /\ pc = "clean"
    /\ LET d1 == [df EXCEPT !.rows = drop_duplicates(df.rows)]
           d2 == clean_category(d1, cols.cat)
           cat_col == category_column(cols.cat)
           amt_col == amount_column(cols.amt, cols.qty)
       IN  IF amt_col = None
           THEN /\ df' = d2
                /\ cols' = [cols EXCEPT !.cat = cat_col]
                /\ pc' = "exit_no_amount"
           ELSE /\ df' = [d2 EXCEPT !.rows = clean_qty(clean_amount(d2.rows, amt_col),
                                                      cols.qty)]
                /\ cols' = [cols EXCEPT !.cat = cat_col, !.amt = amt_col]
                /\ pc' = "aggregate"
    /\ UNCHANGED <<input, args, top_n, agg, pivot, pct, chart, report, files, fin, fout>>

\* Lines 123-144: the month column, the aggregate, the pivot, the change matrix.
Aggregate ==
    /\ pc = "aggregate"
    /\ df' = [columns |-> Append(df.columns, MonthCol),
              rows |-> add_month(df.rows, cols.date)]
    /\ agg' = aggregate(df'.rows, cols.cat, cols.amt, cols.qty)
    /\ pivot' = make_pivot(agg')
    /\ pct' = pct_change(pivot')
    /\ pc' = "export"
    /\ UNCHANGED <<input, cols, args, top_n, chart, report, files, fin, fout>>

\* Lines 146-174: the three tables and the chart of the top categories.
Export ==
    /\ pc = "export"
    /\ top_n' \in -1..MaxTopN
    /\ \E order \in DescendingOrders(DOMAIN total_by_cat(agg), total_by_cat(agg)) :
          chart' = plotted(order, top_n', pivot)
    /\ files' = files \cup {"aggregated_by_category_month.csv", "sales_pivot.csv",
                            "sales_pct_change.csv", "sales_trends_top.png"}
    /\ pc' = "report"
    /\ UNCHANGED <<input, df, cols, args, agg, pivot, pct, report, fin, fout>>

\* A report that is content with one month.
one_month_is_enough(months) == Len(months) >= 1

\* Line 178: the report needs a first and a last month.
enough_months(months) == Len(months) >= 2

\* Lines 177-209: the report, when the pivot has at least two months.
Report ==
    /\ pc = "report"
    /\ IF enough_months(pivot.index)
       THEN /\ \E order \in DescendingOrders(DOMAIN abs_change(pivot), abs_change(pivot)) :
                  report' = make_report(order, pivot)
            /\ files' = files \cup {"report.md"}
       ELSE UNCHANGED <<report, files>>
    /\ pc' = "exit_ok"
    /\ UNCHANGED <<input, df, cols, args, top_n, agg, pivot, pct, chart, fin, fout>>

Next == Detect \/ FilterDates \/ Clean \/ Aggregate \/ Export \/ Report

Spec == Init /\ [][Next]_vars

(***************************************************************************)
(* detect_column on its own: header rows and candidate lists over a small  *)
(* set of names that differ in case only, or not only in case              *)
(***************************************************************************)
MaxHeaders == 2

MaxCands == 2

DetectNames ==
    { <<"a">>, <<"A">>, <<"b">>, <<"a", "b">>, <<"A", "b">>, <<"A", "B">> }

InitDetect ==
    /\ pc = "call"
    /\ \E h \in DistinctSeqsUpTo(DetectNames, MaxHeaders),
          c \in SeqsUpTo(DetectNames, MaxCands) :
             fin = [columns |-> h, candidates |-> c]
    /\ fout = None
    /\ input = <<>>
    /\ df = <<>>
    /\ args = <<>>
    /\ top_n = 0
    /\ cols = NoCols
    /\ agg = <<>>
    /\ pivot = EmptyPivot
    /\ pct = EmptyPivot
    /\ chart = <<>>
    /\ report = EmptyReport
    /\ files = {}

CallDetect ==
    /\ pc = "call"
    /\ fout' = detect_column(fin.columns, fin.candidates)
    /\ pc' = "returned"
    /\ UNCHANGED <<input, df, cols, args, top_n, agg, pivot, pct, chart, report,
                   files, fin>>

NextDetect == CallDetect

SpecDetect == InitDetect /\ [][NextDetect]_vars

(***************************************************************************)
(* The change matrix on its own: pivot matrices of up to MaxMonths months  *)
(* over one or two categories, with negative, zero and positive cells      *)
(***************************************************************************)
MaxMonths == 3

PivotMonths == <<202510, 202511, 202512, 202601, 202602>>

PivotLabels == <<"A", "B">>

PivotCells == {-1, 0, 1, 2}

\* The pivot matrices of m months and c categories (none or both are 0).
PivotsOf(m, c) ==
    [index : {SubSeq(PivotMonths, 1, m)},
     columns : {SubSeq(PivotLabels, 1, c)},
     val : [Range(SubSeq(PivotMonths, 1, m)) \X Range(SubSeq(PivotLabels, 1, c))
              -> PivotCells]]

InitChange ==
    /\ pc = "call"
    /\ \/ fin = EmptyPivot
       \/ \E m \in 1..Min(MaxMonths, Len(PivotMonths)), c \in 1..Len(PivotLabels) :
             fin \in PivotsOf(m, c)
    /\ fout = EmptyPivot
    /\ input = <<>>
    /\ df = <<>>
    /\ args = <<>>
    /\ top_n = 0
    /\ cols = NoCols
    /\ agg = <<>>
    /\ pivot = EmptyPivot
    /\ pct = EmptyPivot
    /\ chart = <<>>
    /\ report = EmptyReport
    /\ files = {}

CallPctChange ==
    /\ pc = "call"
    /\ fout' = pct_change(fin)
    /\ pc' = "returned"
    /\ UNCHANGED <<input, df, cols, args, top_n, agg, pivot, pct, chart, report,
                   files, fin>>

NextChange == CallPctChange

SpecChange == InitChange /\ [][NextChange]_vars

(***************************************************************************)
(* The reporter on its own: pivot matrices over up to MaxReportCats        *)
(* categories (labelled 1, 2, ...), so that both lists of ReportTopK       *)
(* entries can be full and disjoint.  The first month of category c is     *)
(* c % z (z = 1: every first month is 0), the change of category c is      *)
(* s * c - o, except that category t has the change of category t - 1      *)
(* (t = 0: no tie; t = 11: a tie across the boundary of a full list;       *)
(* o > 0: gains and losses are both present); months between the first and *)
(* the last hold 0.                                                        *)
(***************************************************************************)
MaxReportCats == 21

ReportShapes(k) ==
    [k : {k}, months : 1..Min(3, Len(PivotMonths)), z : {1, 3},
     t : {0, 2, 11}, s : {-1, 1}, o : {0, 5}]

ReportPivot(sh) ==
    LET ms == SubSeq(PivotMonths, 1, sh.months)
        first(c) == c % sh.z
        change(c) == sh.s * (IF c = sh.t THEN c - 1 ELSE c) - sh.o
    IN  [index |-> ms,
         columns |-> [c \in 1..sh.k |-> c],
         val |-> [mc \in Range(ms) \X (1..sh.k) |->
                    IF mc[1] = ms[1] THEN first(mc[2])
                    ELSE IF mc[1] = ms[Len(ms)] THEN first(mc[2]) + change(mc[2])
                    ELSE 0]]

InitReport ==
    /\ pc = "call"
    /\ \E k \in 1..MaxReportCats : \E sh \in ReportShapes(k) : fin = ReportPivot(sh)
    /\ fout = EmptyReport
    /\ input = <<>>
    /\ df = <<>>
    /\ args = <<>>
    /\ top_n = 0
    /\ cols = NoCols
    /\ agg = <<>>
    /\ pivot = EmptyPivot
    /\ pct = EmptyPivot
    /\ chart = <<>>
    /\ report = EmptyReport
    /\ files = {}

CallReport ==
    /\ pc = "call"
    /\ IF enough_months(fin.index)
       THEN /\ \E order \in DescendingOrders(DOMAIN abs_change(fin), abs_change(fin)) :
                  fout' = make_report(order, fin)
            /\ files' = files \cup {"report.md"}
       ELSE UNCHANGED <<fout, files>>
    /\ pc' = "returned"
    /\ UNCHANGED <<input, df, cols, args, top_n, agg, pivot, pct, chart, report, fin>>

NextReport == CallReport

SpecReport == InitReport /\ [][NextReport]_vars

(***************************************************************************)
(* Properties of detect_column (SpecDetect)                                *)
(***************************************************************************)
ExactIdx == {i \in DOMAIN fin.candidates : fin.candidates[i] \in Range(fin.columns)}

FuzzyIdx ==
    {i \in DOMAIN fin.candidates :
        \E h \in Range(fin.columns) : Lower(h) = Lower(fin.candidates[i])}

MinOf(S) == CHOOSE i \in S : \A j \in S : i <= j

MaxOf(S) == CHOOSE i \in S : \A j \in S : j <= i

\* C4 as stated: the first candidate that equals a header; failing that, the
\* first CANDIDATE that matches a header when case is ignored; failing that,
\* None.
C4_ReturnsCandidate ==
    pc = "returned" =>
        IF ExactIdx # {} THEN fout = fin.candidates[MinOf(ExactIdx)]
        ELSE IF FuzzyIdx # {} THEN fout = fin.candidates[MinOf(FuzzyIdx)]
        ELSE fout = None

\* C4, amended: the first candidate that equals a header; failing that, the
\* HEADER that matches, when case is ignored, the first candidate with such a
\* match (the last such header of the header row); failing that, None.
C4_ReturnsHeader ==
    pc = "returned" =>
        IF ExactIdx # {} THEN fout = fin.candidates[MinOf(ExactIdx)]
        ELSE IF FuzzyIdx # {}
             THEN LET c == fin.candidates[MinOf(FuzzyIdx)]
                      hs == {i \in DOMAIN fin.columns : Lower(fin.columns[i]) = Lower(c)}
                  IN  fout = fin.columns[MaxOf(hs)]
        ELSE fout = None

\* A call settled by the second pass at the second candidate, with two
\* headers of the matched lower-case form.
C4_Witness ==
    /\ pc = "returned"
    /\ ExactIdx = {}
    /\ FuzzyIdx # {}
    /\ MinOf(FuzzyIdx) = 2
    /\ Len(fin.columns) = 2
    /\ Lower(fin.columns[1]) = Lower(fin.columns[2])
    /\ fout = fin.columns[2]

(***************************************************************************)
(* Properties of the change matrix (SpecChange)                            *)
(***************************************************************************)
\* C3: the change matrix has the shape of the pivot; every cell of the first
\* month is undefined; the cell of a later month m and category c is
\* (pivot[m][c] - pivot[m-1][c]) / pivot[m-1][c] when pivot[m-1][c] is not 0
\* and is undefined, never infinite, when it is 0.
C3_ChangeMatrix ==
    pc = "returned" =>
        /\ fout.index = fin.index
        /\ fout.columns = fin.columns
        /\ DOMAIN fout.val = Range(fin.index) \X Range(fin.columns)
        /\ \A r \in DOMAIN fin.index : \A c \in Range(fin.columns) :
              LET cell == fout.val[<<fin.index[r], c>>]
              IN  IF r = 1 THEN cell.k = "nan"
                  ELSE LET prev == fin.val[<<fin.index[r - 1], c>>]
                           cur == fin.val[<<fin.index[r], c>>]
                       IN  IF prev # 0
                           THEN /\ cell.k = "num"
                                /\ cell.d # 0
                                /\ cell.n * prev = (cur - prev) * cell.d
                           ELSE cell.k = "nan"

\* A matrix of three months with a rise from 0, a fall from 0, a 0 after a 0
\* and a change from a negative value.
C3_Witness ==
    /\ pc = "returned"
    /\ Len(fin.index) = 3
    /\ \E r \in 2..3, c \in Range(fin.columns) :
          fin.val[<<fin.index[r - 1], c>>] = 0 /\ fin.val[<<fin.index[r], c>>] > 0
    /\ \E r \in 2..3, c \in Range(fin.columns) :
          fin.val[<<fin.index[r - 1], c>>] = 0 /\ fin.val[<<fin.index[r], c>>] < 0
    /\ \E r \in 2..3, c \in Range(fin.columns) :
          /\ fin.val[<<fin.index[r - 1], c>>] < 0
          /\ fout.val[<<fin.index[r], c>>].k = "num"

(***************************************************************************)
(* Properties of the reporter (SpecReport)                                 *)
(***************************************************************************)
FirstOf(c) == fin.val[<<fin.index[1], c>>]

LastOf(c) == fin.val[<<fin.index[Len(fin.index)], c>>]

EntryCats(list) == {list[i].cat : i \in DOMAIN list}

EntriesOk(list) ==
    /\ Len(list) = Min(ReportTopK, Len(fin.columns))
    /\ \A i, j \in DOMAIN list : list[i].cat = list[j].cat => i = j
    /\ \A i \in DOMAIN list :
          /\ list[i].cat \in Range(fin.columns)
          /\ list[i].val = LastOf(list[i].cat) - FirstOf(list[i].cat)
          /\ IF FirstOf(list[i].cat) = 0 THEN list[i].pctv.k = "nan"
             ELSE /\ list[i].pctv.k = "num"
                  /\ list[i].pctv.d # 0
                  /\ list[i].pctv.n * FirstOf(list[i].cat) = list[i].val * list[i].pctv.d

Aggregated == pc = "export"

Charted == pc = "report"

\* A row of the input whose date parses to a timestamp within the window.
InWindow(r) ==
    /\ r[cols.date].k = "ts"
    /\ args.start <= r[cols.date].v
    /\ r[cols.date].v <= args.end

Occurrences(rows, r) == Cardinality({i \in DOMAIN rows : rows[i] = r})

\* The aggregate of a run of the pipeline, with the columns and the window of
\* this run, on another table.
RunAggregate(rows) ==
    LET r1 == drop_duplicates(date_filter(rows, cols.date, args.start, args.end))
        cat0 == IF cols.cat = DetectedCatCol THEN None ELSE cols.cat
        d2 == clean_category([columns |-> input.columns, rows |-> r1], cat0)
        r3 == clean_qty(clean_amount(d2.rows, cols.amt), cols.qty)
    IN  aggregate(add_month(r3, cols.date), cols.cat, cols.amt, cols.qty)

\* The sum of column col over the rows that satisfy Match, row by row.
RECURSIVE TotalFrom(_, _, _, _)
TotalFrom(rows, i, match, col) ==
    IF i > Len(rows) THEN 0
    ELSE (IF i \in match THEN rows[i][col].v ELSE 0) + TotalFrom(rows, i + 1, match, col)

CleanPairs == {<<df.rows[j][MonthCol].v, df.rows[j][cols.cat].v>> : j \in DOMAIN df.rows}

PairRows(key) ==
    {j \in DOMAIN df.rows : <<df.rows[j][MonthCol].v, df.rows[j][cols.cat].v>> = key}

\* C2: the aggregate has exactly one row for each (month, category) pair of
\* the cleaned rows; its sales_amount is the sum of the amounts of the group,
\* its orders the number of rows of the group, its qty the sum of the
\* quantities when a quantity column exists and the number of rows otherwise.
C2_Aggregate ==
    Aggregated =>
        /\ {<<agg[i].month, agg[i].cat>> : i \in DOMAIN agg} = CleanPairs
        /\ Len(agg) = Cardinality(CleanPairs)
        /\ \A i \in DOMAIN agg :
              LET g == PairRows(<<agg[i].month, agg[i].cat>>)
              IN  /\ agg[i].sales_amount = TotalFrom(df.rows, 1, g, cols.amt)
                  /\ agg[i].orders = Cardinality(g)
                  /\ agg[i].qty = IF cols.qty # None
                                  THEN TotalFrom(df.rows, 1, g, cols.qty)
                                  ELSE Cardinality(g)

\* An aggregate with a quantity column next to the amount column and a
\* group of two rows whose quantities do not add up to their number.
C2_Witness ==
    /\ pc = "export"
    /\ cols.qty # None
    /\ cols.qty # cols.amt
    /\ \E i \in DOMAIN agg :
          agg[i].orders = 2 /\ agg[i].sales_amount = 2 /\ agg[i].qty = 3

\* A header of the input matches a candidate of the list, with or without
\* regard to case.
HasRole(candidates) ==
    \E h \in Range(input.columns), i \in DOMAIN candidates :
        Lower(h) = Lower(candidates[i])

TableFiles ==
    {"aggregated_by_category_month.csv", "sales_pivot.csv", "sales_pct_change.csv"}

ChartFile == "sales_trends_top.png"

\* C5: the run stops at the first checkpoint exactly when the input has no
\* date column (it goes on to the filter exactly when it has one) and at the
\* second exactly when it has a date column but neither an amount nor a
\* quantity column; up to and at either stop no output file has been written;
\* with a quantity column and no amount column the run stops at neither
\* checkpoint and goes on to aggregate with the quantity column as the amount
\* column.
C5_Checkpoints ==
    /\ files # {} => pc \in {"report", "exit_ok"}
    /\ pc \in {"exit_no_date", "exit_no_amount"} => files \cap OutputFiles = {}
    /\ pc = "exit_no_date" => ~HasRole(COMMON_DATE_COLS)
    /\ pc = "filter" => HasRole(COMMON_DATE_COLS)
    /\ pc = "exit_no_amount" =>
          /\ HasRole(COMMON_DATE_COLS)
          /\ ~HasRole(COMMON_AMOUNT_COLS)
          /\ ~HasRole(COMMON_QTY_COLS)
    /\ pc = "aggregate" =>
          /\ HasRole(COMMON_DATE_COLS)
          /\ HasRole(COMMON_AMOUNT_COLS) \/ HasRole(COMMON_QTY_COLS)
          /\ ~HasRole(COMMON_AMOUNT_COLS) =>
                /\ cols.qty \in Range(input.columns)
                /\ cols.amt = cols.qty

\* A run stopped at the second checkpoint on a table with rows inside the
\* window.
C5_Witness ==
    /\ pc = "exit_no_amount"
    /\ Len(df.rows) = MaxRows
    /\ files = {}

\* The months of the cleaned rows.
CleanMonths == {df.rows[j][MonthCol].v : j \in DOMAIN df.rows}

CleanCats == {df.rows[j][cols.cat].v : j \in DOMAIN df.rows}

Survivors == date_filter(input.rows, cols.date, args.start, args.end)

SurvivorMonths == {MonthLabel(Survivors[j][cols.date].v) : j \in DOMAIN Survivors}

SurvivorCats ==
    {IF cols.cat = DetectedCatCol THEN Unknown
     ELSE fillna(Survivors[j][cols.cat], Str(Unknown)).v : j \in DOMAIN Survivors}

PivotLabelsOk ==
    /\ \A i, j \in DOMAIN pivot.index : i < j => pivot.index[i] < pivot.index[j]
    /\ \A i, j \in DOMAIN pivot.columns : pivot.columns[i] = pivot.columns[j] => i = j
    /\ DOMAIN pivot.val = Range(pivot.index) \X Range(pivot.columns)

\* C7 as stated: the pivot has one row for each month and one column for each
\* category of the rows that survive the DATE FILTER; the labels are unique,
\* the months ascending.
C7_ShapeOfSurvivors ==
    Aggregated =>
        /\ Len(pivot.index) = Cardinality(SurvivorMonths)
        /\ Len(pivot.columns) = Cardinality(SurvivorCats)
        /\ PivotLabelsOk

\* C7, amended: the pivot has one row for each month and one column for each
\* category of the CLEANED rows (the rows that survive the date filter, the
\* deduplication and the removal of the rows without a numeric amount); the
\* labels are unique, the months ascending.
C7_ShapeOfCleaned ==
    Aggregated =>
        /\ Range(pivot.index) = CleanMonths
        /\ Len(pivot.index) = Cardinality(CleanMonths)
        /\ Range(pivot.columns) = CleanCats
        /\ Len(pivot.columns) = Cardinality(CleanCats)
        /\ PivotLabelsOk

\* A pivot of two months and two categories, with a cell filled with 0.
C7_Witness ==
    /\ pc = "export"
    /\ Len(pivot.index) = 2
    /\ Len(pivot.columns) = 2
    /\ \E mc \in DOMAIN pivot.val : pivot.val[mc] = 0

\* The table with every copy of an earlier row removed by hand.
RemoveCopies(rows) ==
    SelectIdx(rows, {i \in DOMAIN rows : \A j \in DOMAIN rows : j < i => rows[j] # rows[i]}, 1)

RECURSIVE SumOrders(_, _)
SumOrders(a, i) == IF i > Len(a) THEN 0 ELSE a[i].orders + SumOrders(a, i + 1)

\* C8: the aggregate of a table with copies of its rows is the aggregate of
\* the table with the copies removed; a row and its copies count as one
\* order.
C8_Dedup ==
    Aggregated =>
        /\ agg = RunAggregate(RemoveCopies(input.rows))
        /\ SumOrders(agg, 1) <= Cardinality(Range(input.rows))

\* The aggregate of a table that is a row and its copies, counted as one order.
C8_Witness ==
    /\ pc = "export"
    /\ Len(input.rows) = MaxRows
    /\ Cardinality(Range(input.rows)) = 1
    /\ Len(agg) = 1
    /\ agg[1].orders = 1

\* The total amount of a category over the cleaned rows, and the row at which
\* the category is first met.
CatTotal(c) ==
    TotalFrom(df.rows, 1, {j \in DOMAIN df.rows : df.rows[j][cols.cat].v = c}, cols.amt)

FirstMet(c) == MinOf({j \in DOMAIN df.rows : df.rows[j][cols.cat].v = c})

ChartRanked ==
    /\ Range(chart) \subseteq CleanCats
    /\ \A i, j \in DOMAIN chart : chart[i] = chart[j] => i = j
    /\ \A i, j \in DOMAIN chart : i < j => CatTotal(chart[i]) >= CatTotal(chart[j])
    /\ \A c \in CleanCats \ Range(chart) :
          \A i \in DOMAIN chart : CatTotal(c) <= CatTotal(chart[i])

\* C9 as stated, for the top-n values N >= 0 (for which min(N, k) is a number
\* of series): the chart has exactly min(N, k) series, the categories of the
\* largest totals in descending order, and categories of equal total are
\* ranked in the order in which they are first met.
C9_TiesByEncounter ==
    (Charted /\ top_n >= 0) =>
        /\ Len(chart) = Min(top_n, Cardinality(CleanCats))
        /\ ChartRanked
        /\ \A i, j \in DOMAIN chart :
              (i < j /\ CatTotal(chart[i]) = CatTotal(chart[j]))
                 => FirstMet(chart[i]) < FirstMet(chart[j])
        /\ \A c \in CleanCats \ Range(chart) :
              \A i \in DOMAIN chart :
                 CatTotal(c) = CatTotal(chart[i]) => FirstMet(chart[i]) < FirstMet(c)

\* C9, amended: for every top-n value N >= 0 the chart has exactly min(N, k)
\* series (for N < 0, max(k + N, 0): all but the last -N of the ranking), the
\* categories of the largest totals in descending order; the order among
\* categories of equal total is not determined.
C9_TopN ==
    Charted =>
        /\ top_n >= 0 => Len(chart) = Min(top_n, Cardinality(CleanCats))
        /\ top_n < 0 => Len(chart) = Max(Cardinality(CleanCats) + top_n, 0)
        /\ ChartRanked

\* A chart of one of two categories: the one plotted has the larger total.
C9_Witness ==
    /\ pc = "report"
    /\ top_n = 1
    /\ Cardinality(CleanCats) = 2
    /\ Len(chart) = 1
    /\ \E c \in CleanCats : CatTotal(c) < CatTotal(chart[1])

====
